---- MODULE Spec2Model ----
(***************************************************************************)
(* A model of ASLGraphDataBuilder (src/ASLGraphDataBuilder.py): the        *)
(* per-recording pipeline stages as operators over landmark tables, and    *)
(* process() as a state machine over signs and recordings.                 *)
(*                                                                         *)
(* A table (pandas DataFrame) is a sequence of rows; a row is a record.    *)
(* Coordinates are exact rationals [n, d]; the missing value (NaN) is the  *)
(* record with d = 0.                                                      *)
(***************************************************************************)
EXTENDS Integers, Sequences, FiniteSets, TLC

VARIABLES
    stage,            \* position of a single-stage run: "idle", "input", "output"
    df,               \* the table handed to the stage
    result,           \* the table the stage returned
    target_frames,    \* self.target_frames
    arg_window_length, \* the window_length handed to _smooth_landmarks
    arg_polyorder,    \* the polyorder handed to _smooth_landmarks
    signs_to_process, \* self.signs_to_process (sequence of sign names)
    label_map,        \* self.label_map (its key set)
    train_df,         \* train.csv: sign -> the paths of its recordings, in order
    max_files_per_sign, \* self.max_files_per_sign
    pc,               \* position of process(): "idle", "sign", "file", "done", "raised"
    sign_i,           \* index of the current sign in signs_to_process
    file_i,           \* index of the next recording of the current sign
    all_signs_data,   \* sign -> [sign, examples]
    written           \* the documents handed to json.dump, in order

vars == <<stage, df, result, target_frames, arg_window_length, arg_polyorder,
          signs_to_process, label_map, train_df, max_files_per_sign, pc, sign_i, file_i, all_signs_data, written>>

stageVars == <<stage, df, result>>
smoothVars == <<arg_window_length, arg_polyorder>>
processVars == <<signs_to_process, label_map, train_df, max_files_per_sign, pc,
                 sign_i, file_i, all_signs_data, written>>

-----------------------------------------------------------------------------
(* Exact rational arithmetic for the float columns x and y.                *)

NaN == [n |-> 0, d |-> 0]

isna(v) == v.d = 0

Abs(i) == IF i < 0 THEN -i ELSE i

RECURSIVE GCD(_, _)
GCD(a, b) == IF b = 0 THEN a ELSE GCD(b, a % b)

\* the rational n/d (d # 0) in lowest terms with a positive denominator
Rat(n, d) ==
    LET g == GCD(Abs(n), Abs(d))
        s == IF d < 0 THEN -1 ELSE 1
    IN  [n |-> s * (n \div g), d |-> s * (d \div g)]

R(i) == [n |-> i, d |-> 1]

\* float arithmetic: NaN is absorbing
RatAdd(a, b) == IF isna(a) \/ isna(b) THEN NaN ELSE Rat(a.n * b.d + b.n * a.d, a.d * b.d)
RatSub(a, b) == IF isna(a) \/ isna(b) THEN NaN ELSE Rat(a.n * b.d - b.n * a.d, a.d * b.d)
RatMul(a, b) == IF isna(a) \/ isna(b) THEN NaN ELSE Rat(a.n * b.n, a.d * b.d)
RatDivInt(a, k) == IF isna(a) \/ k = 0 THEN NaN ELSE Rat(a.n, a.d * k)

RECURSIVE RatSum(_)
RatSum(s) == IF s = <<>> THEN R(0) ELSE RatAdd(Head(s), RatSum(Tail(s)))

-----------------------------------------------------------------------------
(* Table helpers (pandas primitives).                                      *)

Range(s) == {s[i] : i \in DOMAIN s}

\* df[col].unique() as a set
FramesOf(t) == {t[i].frame : i \in DOMAIN t}

\* the number of elements of a set of integers smaller than v:
\* rank(method="dense").astype(int) - 1
DenseRank(S, v) == Cardinality({u \in S : u < v})

\* Series.mean(): the mean of the non-missing values, NaN when there is none
Mean(s) ==
    LET valid == SelectSeq(s, LAMBDA v : ~isna(v))
    IN  IF valid = <<>> THEN NaN ELSE RatDivInt(RatSum(valid), Len(valid))

-----------------------------------------------------------------------------
(* FrameFilter: _remove_empty_frames.                                      *)

\* group[["x", "y"]].notna().any().any() for the rows of frame f
FrameHasValue(t, f) ==
    \E i \in DOMAIN t : t[i].frame = f /\ (~isna(t[i].x) \/ ~isna(t[i].y))

\* a plausible slip: a frame is kept only if some row has both x and y
remove_empty_frames_both(t) ==
    SelectSeq(t, LAMBDA r :
        \E i \in DOMAIN t : t[i].frame = r.frame /\ ~isna(t[i].x) /\ ~isna(t[i].y))

\* df.groupby("frame").filter(...): the rows of the frames that pass, in order
_remove_empty_frames(t) ==
    SelectSeq(t, LAMBDA r : FrameHasValue(t, r.frame))

-----------------------------------------------------------------------------
(* Idle values of the variables a specification does not use.              *)

StageIdle == stage = "idle" /\ df = <<>> /\ result = <<>>

SmoothIdle == arg_window_length = 0 /\ arg_polyorder = 0

ProcessIdle ==
    /\ signs_to_process = <<>>
    /\ label_map = {}
    /\ train_df = <<>>
    /\ max_files_per_sign = 0
    /\ pc = "idle"
    /\ sign_i = 0
    /\ file_i = 0
    /\ all_signs_data = <<>>
    /\ written = <<>>

\* a raw parquet row; row_id "<prefix>-<group>-<index>" is kept as its parts
RawRow(f, g, i, x, y) ==
    [row_id |-> <<f, g, i>>, frame |-> f, type |-> g, landmark_index |-> i,
     x |-> x, y |-> y, z |-> R(0)]

\* all sequences over S of length 0..n
SeqsUpTo(S, n) == UNION {[1..k -> S] : k \in 0..n}

-----------------------------------------------------------------------------
(* SpecFilter: _remove_empty_frames on every small raw table.              *)

MaxFilterRows == 3

FilterFrames == {3, 7}

FilterRows ==
    {RawRow(f, "pose", 0, x, y) :
        f \in FilterFrames, x \in {NaN, R(1)}, y \in {NaN, R(2)}}

InitFilter ==
    /\ stage = "input"
    /\ df \in SeqsUpTo(FilterRows, MaxFilterRows)
    /\ result = <<>>
    /\ target_frames = 0
    /\ SmoothIdle
    /\ ProcessIdle

RemoveEmptyFrames ==
    /\ stage = "input"
    /\ result' = _remove_empty_frames(df)
    /\ stage' = "output"
    /\ UNCHANGED <<df, target_frames, smoothVars, processVars>>

NextFilter == RemoveEmptyFrames

SpecFilter == InitFilter /\ [][NextFilter]_vars

\* C7 (as stated): after the FrameFilter every remaining frame holds an
\* observation with both x and y defined, and a frame without such an
\* observation is removed.
C7_EveryKeptFrameHasFullPair ==
    stage = "output" =>
        \A f \in FramesOf(df) :
            (f \in FramesOf(result)) <=>
                (\E i \in DOMAIN df :
                    df[i].frame = f /\ ~isna(df[i].x) /\ ~isna(df[i].y))

\* C7 (amended): after the FrameFilter a frame remains exactly when some
\* observation of it has x or y defined; the rows of the remaining frames
\* are kept unchanged and in order.
C7_KeptIffAnyValue ==
    stage = "output" =>
        /\ \A f \in FramesOf(df) :
              (f \in FramesOf(result)) <=>
                  (\E i \in DOMAIN df :
                      df[i].frame = f /\ (~isna(df[i].x) \/ ~isna(df[i].y)))
        /\ result = SelectSeq(df, LAMBDA r : r.frame \in FramesOf(result))

\* a frame whose only values are an x on one row and a y on another is
\* kept while an all-missing frame is removed
C7_Witness ==
    /\ stage = "output"
    /\ \E f \in FramesOf(result) :
          /\ \A i \in DOMAIN df : df[i].frame = f => (isna(df[i].x) \/ isna(df[i].y))
          /\ \E i \in DOMAIN df : df[i].frame = f /\ ~isna(df[i].x)
          /\ \E i \in DOMAIN df : df[i].frame = f /\ ~isna(df[i].y)
    /\ \E f \in FramesOf(df) : f \notin FramesOf(result)

-----------------------------------------------------------------------------
(* LandmarkSelector: _extract_relevant_landmarks.                          *)

PoseIndices == {0, 1, 2, 3, 4, 5, 6, 9, 10, 11, 12, 13, 14, 15, 16, 23, 24, 25, 26, 27, 28}

FaceIndices == {33, 34, 35, 36, 37, 38, 39, 40, 41, 42, 43, 44, 45, 46,
                61, 62, 63, 64, 66, 291, 292, 293, 294, 295, 296}

HandIndices == 0..20

\* the landmark ids "<group>-<index>" of the list relevant_landmarks
relevant_landmarks ==
    ({"pose"} \X PoseIndices) \cup ({"face"} \X FaceIndices)
        \cup ({"right_hand"} \X HandIndices) \cup ({"left_hand"} \X HandIndices)

\* row_id.split("-")[1], int(row_id.split("-")[2])
landmark_id(row) == <<row.row_id[2], row.row_id[3]>>

\* the columns ["row_id", "landmark_index", "x", "y", "frame", "type"]
SelectedColumns(row) ==
    [row_id |-> row.row_id, landmark_index |-> row.row_id[3], x |-> row.x,
     y |-> row.y, frame |-> row.frame, type |-> row.type]

\* a plausible slip: the landmark is looked up by its index alone
extract_by_index_only(t) ==
    LET df_filtered == SelectSeq(t, LAMBDA r : \E id \in relevant_landmarks : id[2] = r.row_id[3])
    IN  [i \in DOMAIN df_filtered |-> SelectedColumns(df_filtered[i])]

_extract_relevant_landmarks(t) ==
    LET df_filtered == SelectSeq(t, LAMBDA r : landmark_id(r) \in relevant_landmarks)
    IN  [i \in DOMAIN df_filtered |-> SelectedColumns(df_filtered[i])]

-----------------------------------------------------------------------------
(* SpecSelect: _extract_relevant_landmarks on every small raw table.       *)

MaxSelectRows == 2

Groups == {"face", "left_hand", "pose", "right_hand"}

SelectIndices == {0, 7, 20, 21, 33, 65, 291}

SelectRows == {RawRow(1, g, i, R(1), R(2)) : g \in Groups, i \in SelectIndices}

InitSelect ==
    /\ stage = "input"
    /\ df \in SeqsUpTo(SelectRows, MaxSelectRows)
    /\ result = <<>>
    /\ target_frames = 0
    /\ SmoothIdle
    /\ ProcessIdle

ExtractRelevantLandmarks ==
    /\ stage = "input"
    /\ result' = _extract_relevant_landmarks(df)
    /\ stage' = "output"
    /\ UNCHANGED <<df, target_frames, smoothVars, processVars>>

NextSelect == ExtractRelevantLandmarks

SpecSelect == InitSelect /\ [][NextSelect]_vars

\* the (group, index) pairs of the canonical set, counted per group
CanonicalOf(g) == {id \in relevant_landmarks : id[1] = g}

\* C6: every observation returned by the LandmarkSelector has a (group,
\* index) pair in the 88-entry canonical set (21 pose, 25 face, 21
\* right_hand, 21 left_hand), and every input observation whose pair is in
\* that set is retained (in order, with its x, y and frame).
C6_CanonicalSetClosure ==
    stage = "output" =>
        /\ Cardinality(relevant_landmarks) = 88
        /\ Cardinality(CanonicalOf("pose")) = 21
        /\ Cardinality(CanonicalOf("face")) = 25
        /\ Cardinality(CanonicalOf("right_hand")) = 21
        /\ Cardinality(CanonicalOf("left_hand")) = 21
        /\ \A i \in DOMAIN result :
              <<result[i].type, result[i].landmark_index>> \in relevant_landmarks
        /\ LET kept == SelectSeq(df, LAMBDA r : <<r.type, r.landmark_index>> \in relevant_landmarks)
           IN  /\ Len(result) = Len(kept)
               /\ \A i \in DOMAIN kept :
                     /\ result[i].row_id = kept[i].row_id
                     /\ result[i].x = kept[i].x
                     /\ result[i].y = kept[i].y
                     /\ result[i].frame = kept[i].frame

\* a table with a canonical and a non-canonical landmark of the same index
\* has gone through the selector: one is retained, the other dropped
C6_Witness ==
    /\ stage = "output"
    /\ Len(df) = 2
    /\ Len(result) = 1
    /\ df[1].landmark_index = df[2].landmark_index

-----------------------------------------------------------------------------
(* MissingValueInterpolator: _handle_nan_values, _interpolate_landmarks.   *)

\* the positions of the rows of the mask df["type"] == landmark_type, in order
RECURSIVE MaskFrom(_, _, _)
MaskFrom(t, g, i) ==
    IF i > Len(t) THEN <<>>
    ELSE (IF t[i].type = g THEN <<i>> ELSE <<>>) \o MaskFrom(t, g, i + 1)

Mask(t, g) == MaskFrom(t, g, 1)

\* Series.interpolate(method="linear", limit_direction="both"): the values
\* are taken as equally spaced; a gap between two values is filled on the
\* line through them, a gap at an end with the nearest value
interpolate(s) ==
    [i \in DOMAIN s |->
        IF ~isna(s[i]) THEN s[i]
        ELSE LET before == {j \in DOMAIN s : j < i /\ ~isna(s[j])}
                 after == {j \in DOMAIN s : j > i /\ ~isna(s[j])}
                 p == CHOOSE j \in before : \A k \in before : k <= j
                 q == CHOOSE j \in after : \A k \in after : j <= k
             IN  IF before # {} /\ after # {}
                     THEN RatAdd(s[p], RatDivInt(RatMul(RatSub(s[q], s[p]), R(i - p)), q - p))
                 ELSE IF before # {} THEN s[p]
                 ELSE IF after # {} THEN s[q]
                 ELSE NaN]

\* Series.fillna(value)
fillna(s, value) == [i \in DOMAIN s |-> IF isna(s[i]) THEN value ELSE s[i]]

\* one axis of one landmark type: interpolate, then fill with the mean
FillAxis(s) == LET filled == interpolate(s) IN fillna(filled, Mean(filled))

\* the body of the loop over df["type"].unique() for one landmark type
InterpolateType(t, g) ==
    LET mask == Mask(t, g)
        xs == FillAxis([k \in DOMAIN mask |-> t[mask[k]].x])
        ys == FillAxis([k \in DOMAIN mask |-> t[mask[k]].y])
        pos(i) == CHOOSE k \in DOMAIN mask : mask[k] = i
    IN  [i \in DOMAIN t |->
            IF t[i].type = g
                THEN [t[i] EXCEPT !.x = xs[pos(i)], !.y = ys[pos(i)]]
            ELSE t[i]]

\* df["type"].unique(): the landmark types in order of first appearance
RECURSIVE UniqueTypes(_, _)
UniqueTypes(t, seen) ==
    IF t = <<>> THEN <<>>
    ELSE IF Head(t).type \in seen THEN UniqueTypes(Tail(t), seen)
    ELSE <<Head(t).type>> \o UniqueTypes(Tail(t), seen \cup {Head(t).type})

RECURSIVE InterpolateTypes(_, _)
InterpolateTypes(t, types) ==
    IF types = <<>> THEN t
    ELSE InterpolateTypes(InterpolateType(t, Head(types)), Tail(types))

\* a plausible slip: the series is interpolated over the whole table, not
\* within the mask of one landmark type
interpolate_landmarks_unmasked(t) ==
    LET xs == FillAxis([k \in DOMAIN t |-> t[k].x])
        ys == FillAxis([k \in DOMAIN t |-> t[k].y])
    IN  [i \in DOMAIN t |-> [t[i] EXCEPT !.x = xs[i], !.y = ys[i]]]

_interpolate_landmarks(t) == InterpolateTypes(t, UniqueTypes(t, {}))

\* df.dropna(subset=["x", "y"])
dropna(t) == SelectSeq(t, LAMBDA r : ~isna(r.x) /\ ~isna(r.y))

_handle_nan_values(t) == dropna(_interpolate_landmarks(t))

-----------------------------------------------------------------------------
(* SpecNan: _handle_nan_values on every small selected table.              *)

MaxNanRows == 3

\* a row as _extract_relevant_landmarks returns it
SelectedRow(f, g, i, x, y) == SelectedColumns(RawRow(f, g, i, x, y))

NanGroups == {"pose", "right_hand"}

\* row k of the table is the only observation of frame k, so the table is
\* sorted by (frame, landmark_index) as process() hands it over
InitNan ==
    /\ stage = "input"
    /\ \E n \in 0..MaxNanRows :
          \E g \in [1..n -> NanGroups], x \in [1..n -> {NaN, R(1), R(4)}],
             y \in [1..n -> {NaN, R(2)}] :
              df = [k \in 1..n |-> SelectedRow(k, g[k], 0, x[k], y[k])]
    /\ result = <<>>
    /\ target_frames = 0
    /\ SmoothIdle
    /\ ProcessIdle

HandleNanValues ==
    /\ stage = "input"
    /\ result' = _handle_nan_values(df)
    /\ stage' = "output"
    /\ UNCHANGED <<df, target_frames, smoothVars, processVars>>

NextNan == HandleNanValues

SpecNan == InitNan /\ [][NextNan]_vars

OfType(t, g) == SelectSeq(t, LAMBDA r : r.type = g)

\* the landmark group g has no defined x, or no defined y, in table t
GroupLacksAxis(t, g) ==
    \/ \A i \in DOMAIN t : t[i].type = g => isna(t[i].x)
    \/ \A i \in DOMAIN t : t[i].type = g => isna(t[i].y)

\* C8: after the MissingValueInterpolator no retained observation has an
\* undefined x or y; an observation is dropped exactly when its landmark
\* group has no defined value at all for some axis in the recording; and
\* what is returned for one group is what is returned for that group alone
\* (the other groups' values play no part), defined values staying as they
\* were.
C8_NoNaNAndGroupsIndependent ==
    stage = "output" =>
        /\ \A i \in DOMAIN result : ~isna(result[i].x) /\ ~isna(result[i].y)
        /\ \A i \in DOMAIN df :
              (\A j \in DOMAIN result : result[j].row_id # df[i].row_id)
                  <=> GroupLacksAxis(df, df[i].type)
        /\ \A g \in NanGroups : OfType(result, g) = _handle_nan_values(OfType(df, g))
        /\ \A i \in DOMAIN df : \A j \in DOMAIN result :
              result[j].row_id = df[i].row_id =>
                  /\ (~isna(df[i].x) => result[j].x = df[i].x)
                  /\ (~isna(df[i].y) => result[j].y = df[i].y)

\* one group lost its rows (an axis without any value) while a gap of the
\* other group, lying between that group's rows, was filled
C8_Witness ==
    /\ stage = "output"
    /\ \E i \in DOMAIN df : \A j \in DOMAIN result : result[j].row_id # df[i].row_id
    /\ \E i \in DOMAIN df : \E j \in DOMAIN result :
          /\ result[j].row_id = df[i].row_id
          /\ isna(df[i].x)
          /\ \E k \in DOMAIN df : k < i /\ df[k].type # df[i].type /\ ~isna(df[k].x)

-----------------------------------------------------------------------------
(* TemporalResampler: _interpolate_frames, _increase_frames,               *)
(* _reduce_frames.                                                         *)

Floor(v) == v.n \div v.d
Ceil(v) == -((-v.n) \div v.d)

\* np.linspace(0, stop, num): num evenly spaced positions over [0, stop],
\* position k (from 0) at k * stop / (num - 1), the last one set to stop;
\* a single position is 0
linspace(stop, num) ==
    [k \in 1..num |->
        IF num = 1 THEN R(0)
        ELSE IF k = num THEN R(stop)
        ELSE Rat((k - 1) * stop, num - 1)]

\* df["landmark_index"].nunique()
IndicesOf(t) == {t[i].landmark_index : i \in DOMAIN t}

\* df["frame"] = df["frame"].rank(method="dense").astype(int) - 1
RankFrames(t) ==
    [i \in DOMAIN t |-> [t[i] EXCEPT !.frame = DenseRank(FramesOf(t), t[i].frame)]]

\* row a sorts before row b by ["frame", "landmark_index"]
RowBefore(a, b) ==
    \/ a.frame < b.frame
    \/ a.frame = b.frame /\ a.landmark_index < b.landmark_index

\* df.sort_values(by=["frame", "landmark_index"]): rows with equal keys keep
\* their order
RECURSIVE InsertRow(_, _)
InsertRow(sorted, r) ==
    IF sorted = <<>> THEN <<r>>
    ELSE IF RowBefore(r, Head(sorted)) THEN <<r>> \o sorted
    ELSE <<Head(sorted)>> \o InsertRow(Tail(sorted), r)

RECURSIVE SortRows(_)
SortRows(t) ==
    IF t = <<>> THEN <<>>
    ELSE InsertRow(SortRows(SubSeq(t, 1, Len(t) - 1)), t[Len(t)])

\* df[(df["frame"] == f) & (df["landmark_index"] == li)]
FrameData(t, f, li) == SelectSeq(t, LAMBDA r : r.frame = f /\ r.landmark_index = li)

\* the body of the loop over range(num_landmarks) for output frame i (from
\* 0) and landmark_index li: no row when either neighbour frame lacks the
\* index, else the row interpolated between the first matching rows
IncreaseRow(t, i, position, li) ==
    LET lower_frame == Floor(position)
        upper_frame == Ceil(position)
        alpha == RatSub(position, R(lower_frame))
        lower_frame_data == FrameData(t, lower_frame, li)
        upper_frame_data == FrameData(t, upper_frame, li)
        mix(a, b) == RatAdd(RatMul(RatSub(R(1), alpha), a), RatMul(alpha, b))
    IN  IF lower_frame_data = <<>> \/ upper_frame_data = <<>> THEN <<>>
        ELSE <<[frame |-> i,
                landmark_index |-> li,
                x |-> mix(lower_frame_data[1].x, upper_frame_data[1].x),
                y |-> mix(lower_frame_data[1].y, upper_frame_data[1].y),
                type |-> lower_frame_data[1].type]>>

\* for landmark_index in range(num_landmarks), starting at li
RECURSIVE IncreaseFrame(_, _, _, _, _)
IncreaseFrame(t, i, position, li, num_landmarks) ==
    IF li >= num_landmarks THEN <<>>
    ELSE IncreaseRow(t, i, position, li)
            \o IncreaseFrame(t, i, position, li + 1, num_landmarks)

\* for i in range(self.target_frames), starting at i
RECURSIVE IncreaseFrom(_, _, _, _)
IncreaseFrom(t, positions, i, num_landmarks) ==
    IF i >= Len(positions) THEN <<>>
    ELSE IncreaseFrame(t, i, positions[i + 1], 0, num_landmarks)
            \o IncreaseFrom(t, positions, i + 1, num_landmarks)

_increase_frames(t, target) ==
    LET num_frames == Cardinality(FramesOf(t))
        num_landmarks == Cardinality(IndicesOf(t))
    IN  IncreaseFrom(t, linspace(num_frames - 1, target), 0, num_landmarks)

\* a plausible slip: the positions are spread over [0, num_frames], one
\* frame too far
reduce_frames_off_by_one(t, target) ==
    LET num_frames == Cardinality(FramesOf(t))
        positions == linspace(num_frames, target)
        frames_to_keep == {Floor(positions[k]) : k \in DOMAIN positions}
    IN  RankFrames(SelectSeq(t, LAMBDA r : r.frame \in frames_to_keep))

\* np.linspace(0, num_frames - 1, target, dtype=int) truncates the positions
_reduce_frames(t, target) ==
    LET num_frames == Cardinality(FramesOf(t))
        positions == linspace(num_frames - 1, target)
        frames_to_keep == {Floor(positions[k]) : k \in DOMAIN positions}
    IN  RankFrames(SelectSeq(t, LAMBDA r : r.frame \in frames_to_keep))

_interpolate_frames(t, target) ==
    LET num_frames == Cardinality(FramesOf(t))
        sorted == SortRows(RankFrames(t))
    IN  IF num_frames < target THEN _increase_frames(sorted, target)
        ELSE IF num_frames > target THEN _reduce_frames(sorted, target)
        ELSE sorted

-----------------------------------------------------------------------------
(* SpecResample: _interpolate_frames on every small cleaned table and      *)
(* every small target_frames.                                              *)

MaxResampleFrames == 4

MaxTarget == 3

\* the landmarks a frame may hold, in the order the rows of one frame have
\* after the sort by (frame, landmark_index): the rows of equal index are in
\* file order
ResampleLandmarks == << <<"pose", 0>>, <<"right_hand", 0>>, <<"face", 33>> >>

\* the original (not dense) number of the k-th frame of a recording
FrameId(k) == 3 * k - 1

\* the observation of landmark j in the k-th frame; no two share x or y
ResampleRow(k, j) ==
    SelectedRow(FrameId(k), ResampleLandmarks[j][1], ResampleLandmarks[j][2],
                R(10 * k + j), R(7 * j - k * k))

RECURSIVE FrameRows(_, _, _)
FrameRows(k, present, j) ==
    IF j > Len(ResampleLandmarks) THEN <<>>
    ELSE (IF j \in present THEN <<ResampleRow(k, j)>> ELSE <<>>)
            \o FrameRows(k, present, j + 1)

\* shape[k] is the set of landmarks observed in the k-th frame
RECURSIVE BuildTable(_, _)
BuildTable(shape, k) ==
    IF k > Len(shape) THEN <<>>
    ELSE FrameRows(k, shape[k], 1) \o BuildTable(shape, k + 1)

InitResample ==
    /\ stage = "input"
    /\ \E n \in 1..MaxResampleFrames :
          \E shape \in [1..n -> (SUBSET (1..Len(ResampleLandmarks))) \ {{}}] :
              df = BuildTable(shape, 1)
    /\ result = <<>>
    /\ target_frames \in 1..MaxTarget
    /\ SmoothIdle
    /\ ProcessIdle

InterpolateFrames ==
    /\ stage = "input"
    /\ result' = _interpolate_frames(df, target_frames)
    /\ stage' = "output"
    /\ UNCHANGED <<df, target_frames, smoothVars, processVars>>

NextResample == InterpolateFrames

SpecResample == InitResample /\ [][NextResample]_vars

\* the observations (group, index, x, y) of frame f of table t
Landmarks(t, f) ==
    {<<t[i].type, t[i].landmark_index, t[i].x, t[i].y>> : i \in {j \in DOMAIN t : t[j].frame = f}}

\* the input with its frames renumbered densely from 0
DenseInput == SortRows(RankFrames(df))

NumInputFrames == Cardinality(FramesOf(df))

\* C3: for n >= 1 frames and target_frames = T >= 1 the table returned by
\* the TemporalResampler has exactly T distinct frame indices.
C3_ExactlyTargetFrames ==
    stage = "output" => Cardinality(FramesOf(result)) = target_frames

\* C4: when a recording is upsampled (n < T), output frame 0 holds exactly
\* the landmarks (group, index, x, y) of the original first frame and output
\* frame T-1 exactly those of the original last frame.
C4_UpsampleKeepsEndFrames ==
    (stage = "output" /\ NumInputFrames < target_frames) =>
        /\ Landmarks(result, 0) = Landmarks(DenseInput, 0)
        /\ Landmarks(result, target_frames - 1) = Landmarks(DenseInput, NumInputFrames - 1)

\* the rows of frame f of table t, renumbered as frame k
RowsAs(t, f, k) ==
    LET rows == SelectSeq(t, LAMBDA r : r.frame = f)
    IN  [i \in DOMAIN rows |-> [rows[i] EXCEPT !.frame = k]]

LandmarkIds(t, f) ==
    {<<t[i].type, t[i].landmark_index>> : i \in {j \in DOMAIN t : t[j].frame = f}}

\* C13: during upsampling (n < T), for every virtual position with
\* lower = floor(position) and upper = ceil(position), the new frame holds an
\* observation of a landmark (group, index) if and only if that landmark is
\* present in both the lower and the upper frame, under the group it has in
\* the lower frame and once each: landmarks of different groups that share
\* an index (pose-0, right_hand-0) and landmarks with large indices
\* (face-33) are each emitted.
C13_UpsampleEmitsCommonLandmarks ==
    (stage = "output" /\ NumInputFrames < target_frames) =>
        LET input == DenseInput
            positions == linspace(NumInputFrames - 1, target_frames)
        IN  \A i \in 0..(target_frames - 1) :
                LET common == LandmarkIds(input, Floor(positions[i + 1]))
                                  \cap LandmarkIds(input, Ceil(positions[i + 1]))
                IN  /\ LandmarkIds(result, i) = common
                    /\ Cardinality({j \in DOMAIN result : result[j].frame = i})
                          = Cardinality(common)

-----------------------------------------------------------------------------
(* DimensionReducer and CoordinateNormalizer: _drop_z_coordinate,          *)
(* _normalize_coordinates.                                                 *)

\* df.drop(columns=["z"], errors="ignore")
_drop_z_coordinate(t) ==
    [i \in DOMAIN t |->
        IF "z" \in DOMAIN t[i] THEN [c \in (DOMAIN t[i]) \ {"z"} |-> t[i][c]] ELSE t[i]]

_normalize_coordinates(t) ==
    LET centroid == <<Mean([i \in DOMAIN t |-> t[i].x]), Mean([i \in DOMAIN t |-> t[i].y])>>
    IN  [i \in DOMAIN t |->
            [t[i] EXCEPT !.x = RatSub(t[i].x, centroid[1]),
                         !.y = RatSub(t[i].y, centroid[2])]]

-----------------------------------------------------------------------------
(* TemporalSmoother: _smooth_landmarks.                                    *)

RECURSIVE Binomial(_, _)
Binomial(n, k) == IF k = 0 \/ k = n THEN 1 ELSE Binomial(n - 1, k - 1) + Binomial(n - 1, k)

\* the (w-1)-th finite difference over a window of w samples: the direction
\* orthogonal to the polynomials of degree <= w - 2 on w equally spaced points
Difference(w) == [j \in 1..w |-> (IF j % 2 = 1 THEN 1 ELSE -1) * Binomial(w - 1, j - 1)]

RatDiv(a, b) ==
    IF isna(a) \/ isna(b) \/ b.n = 0 THEN NaN ELSE Rat(a.n * b.d, a.d * b.n)

Dot(a, b) == RatSum([j \in DOMAIN a |-> RatMul(a[j], b[j])])

RECURSIVE Power(_, _)
Power(b, k) == IF k = 0 THEN 1 ELSE b * Power(b, k - 1)

\* the monomial of degree k on the w positions of a window, counted from its
\* centre
Monomial(w, k) == [j \in 1..w |-> R(Power(j - 1 - (w \div 2), k))]

\* v without its components along the pairwise orthogonal vectors of basis
RECURSIVE Reject(_, _)
Reject(v, basis) ==
    IF basis = <<>> THEN v
    ELSE LET q == Head(basis)
             c == RatDiv(Dot(q, v), Dot(q, q))
         IN  Reject([j \in DOMAIN v |-> RatSub(v[j], RatMul(c, q[j]))], Tail(basis))

\* an orthogonal basis of the polynomials of degree <= k on w positions
RECURSIVE OrthogonalBasis(_, _)
OrthogonalBasis(w, k) ==
    IF k < 0 THEN <<>>
    ELSE LET lower == OrthogonalBasis(w, k - 1)
         IN  Append(lower, Reject(Monomial(w, k), lower))

\* the values on a window of its least-squares polynomial of degree polyorder
PolyFit(y, polyorder) ==
    LET residual == Reject(y, OrthogonalBasis(Len(y), polyorder))
    IN  [j \in DOMAIN y |-> RatSub(y[j], residual[j])]

\* scipy.signal.savgol_filter(s, window_length, polyorder), mode="interp",
\* for Len(s) >= window_length: each sample is replaced by the value of the
\* least-squares polynomial of its window (the window centred on it, or the
\* first / last window near an end).  polyorder = window_length - 1 fits the
\* window exactly; polyorder = window_length - 2 removes the window's
\* component along Difference(window_length); any lower polyorder is the
\* least-squares fit itself.
savgol_filter(s, window_length, polyorder) ==
    LET h == window_length \div 2
        N == Len(s)
        v == Difference(window_length)
        vv == RatSum([j \in 1..window_length |-> R(v[j] * v[j])])
        start(i) == IF i - h < 1 THEN 1
                    ELSE IF i - h > N - window_length + 1 THEN N - window_length + 1
                    ELSE i - h
        vy(i) == RatSum([j \in 1..window_length |-> RatMul(R(v[j]), s[start(i) + j - 1])])
    IN  CASE polyorder = window_length - 1 -> s
          [] polyorder = window_length - 2 ->
                [i \in DOMAIN s |->
                    RatSub(s[i], RatDivInt(RatMul(R(v[i - start(i) + 1]), vy(i)), vv.n))]
          [] OTHER ->
                [i \in DOMAIN s |->
                    PolyFit([j \in 1..window_length |-> s[start(i) + j - 1]],
                            polyorder)[i - start(i) + 1]]

\* the two errors _smooth_landmarks raises
ConfigurationError == "ValueError: window_length must be odd"
InputSizeError == "ValueError: window_length is too large"

\* the outcome of a stage that may raise
Returned(t) == [raised |-> "", df |-> t]
Raised(what) == [raised |-> what, df |-> <<>>]

\* the body of the loop over df["type"].unique() for one landmark type
SmoothType(t, g, window_length, polyorder) ==
    LET mask == Mask(t, g)
        xs == savgol_filter([k \in DOMAIN mask |-> t[mask[k]].x], window_length, polyorder)
        ys == savgol_filter([k \in DOMAIN mask |-> t[mask[k]].y], window_length, polyorder)
        pos(i) == CHOOSE k \in DOMAIN mask : mask[k] = i
    IN  [i \in DOMAIN t |->
            IF t[i].type = g
                THEN [t[i] EXCEPT !.x = xs[pos(i)], !.y = ys[pos(i)]]
            ELSE t[i]]

RECURSIVE SmoothTypes(_, _, _, _)
SmoothTypes(t, types, window_length, polyorder) ==
    IF types = <<>> THEN Returned(t)
    ELSE IF window_length > Len(Mask(t, Head(types)))
        THEN Raised(InputSizeError)
    ELSE SmoothTypes(SmoothType(t, Head(types), window_length, polyorder),
                     Tail(types), window_length, polyorder)

\* a plausible slip: window_length = polyorder passes the parameter check
smooth_landmarks_lenient(t, window_length, polyorder) ==
    IF window_length % 2 = 0 \/ window_length < polyorder
        THEN Raised(ConfigurationError)
    ELSE SmoothTypes(t, UniqueTypes(t, {}), window_length, polyorder)

_smooth_landmarks(t, window_length, polyorder) ==
    IF window_length % 2 = 0 \/ window_length <= polyorder
        THEN Raised(ConfigurationError)
    ELSE SmoothTypes(t, UniqueTypes(t, {}), window_length, polyorder)

-----------------------------------------------------------------------------
(* SpecSmooth: _smooth_landmarks on every small normalised table and every *)
(* small pair of parameters.                                               *)

MaxSmoothRows == 6

MaxWindowLength == 5

MaxPolyorder == 3

SmoothGroups == {"pose", "right_hand"}

\* row k of the table is the only observation of frame k
SmoothRow(k, g) == SelectedRow(k, g, 0, R(k * k), R(k * k * k - 7 * k))

InitSmooth ==
    /\ stage = "input"
    /\ \E n \in 0..MaxSmoothRows : \E g \in [1..n -> SmoothGroups] :
          df = [k \in 1..n |-> SmoothRow(k, g[k])]
    /\ result = <<>>
    /\ target_frames = 0
    /\ arg_window_length \in 1..MaxWindowLength
    /\ arg_polyorder \in 0..MaxPolyorder
    /\ ProcessIdle

SmoothLandmarks ==
    /\ stage = "input"
    /\ result' = _smooth_landmarks(df, arg_window_length, arg_polyorder)
    /\ stage' = "output"
    /\ UNCHANGED <<df, target_frames, smoothVars, processVars>>

NextSmooth == SmoothLandmarks

SpecSmooth == InitSmooth /\ [][NextSmooth]_vars

\* some landmark group present in table t has fewer samples than w
SomeGroupShorterThan(t, w) ==
    \E g \in {t[i].type : i \in DOMAIN t} :
        Cardinality({i \in DOMAIN t : t[i].type = g}) < w

-----------------------------------------------------------------------------
(* HandGeometryExtractor: _calculate_hand_features,                        *)
(* _calculate_finger_joint_angles, _calculate_finger_orientation_angles.   *)
(*                                                                         *)
(* A feature column is kept per row as an entry of the row's field         *)
(* "features": a name is in its domain exactly when the column is not NaN  *)
(* on that row.  Square roots and arc tangents are kept as their exact     *)
(* arguments.                                                              *)

Hands == <<"right_hand", "left_hand">>

\* frame_data[(type == hand) & (landmark_index == li)][["x", "y"]].values
Points(t, f, hand, li) ==
    SelectSeq(t, LAMBDA r : r.frame = f /\ r.type = hand /\ r.landmark_index = li)

\* np.sqrt((x1 - x2) ** 2 + (y1 - y2) ** 2), kept as the radicand
_calculate_distance(point1, point2) ==
    [sqrt |-> RatAdd(RatMul(RatSub(point1.x, point2.x), RatSub(point1.x, point2.x)),
                     RatMul(RatSub(point1.y, point2.y), RatSub(point1.y, point2.y)))]

\* np.degrees(np.arctan2(dy, dx)), kept as <<dy, dx>>
_calculate_orientation_angle(point1, point2) ==
    [arctan2 |-> <<RatSub(point2.y, point1.y), RatSub(point2.x, point1.x)>>]

_calculate_palm_orientation(wrist, thumb_tip, pinky_tip) ==
    LET mid_point == [x |-> RatDivInt(RatAdd(thumb_tip.x, pinky_tip.x), 2),
                      y |-> RatDivInt(RatAdd(thumb_tip.y, pinky_tip.y), 2)]
    IN  [arctan2 |-> <<RatSub(mid_point.y, wrist.y), RatSub(mid_point.x, wrist.x)>>]

\* "Check if all required landmarks are present"
HandComplete(t, f, hand) ==
    /\ Points(t, f, hand, 0) # <<>>
    /\ Points(t, f, hand, 4) # <<>>
    /\ Points(t, f, hand, 8) # <<>>
    /\ Points(t, f, hand, 20) # <<>>

\* the two columns initialised to NaN and set on the rows of (frame, hand)
_calculate_hand_features(t) ==
    [i \in DOMAIN t |->
        LET r == t[i]
            defined == r.type \in Range(Hands) /\ HandComplete(t, r.frame, r.type)
            wrist == Points(t, r.frame, r.type, 0)[1]
            thumb_tip == Points(t, r.frame, r.type, 4)[1]
            index_tip == Points(t, r.frame, r.type, 8)[1]
            pinky_tip == Points(t, r.frame, r.type, 20)[1]
            names == IF defined
                         THEN {r.type \o "_thumb_index_distance", r.type \o "_palm_orientation"}
                     ELSE {}
        IN  [c \in (DOMAIN r) \cup {"features"} |->
                IF c # "features" THEN r[c]
                ELSE [name \in names |->
                        IF name = r.type \o "_thumb_index_distance"
                            THEN _calculate_distance(thumb_tip, index_tip)
                        ELSE _calculate_palm_orientation(wrist, thumb_tip, pinky_tip)]]]

\* row.get("<hand>-<joint>") finds no such column on any row, so every
\* "<hand>_<finger>_<i>_angle" column stays NaN: no feature becomes defined
_calculate_finger_joint_angles(t) == t

FingerTips == [thumb |-> 4, index |-> 8, middle |-> 12, ring |-> 16, pinky |-> 20]

Fingers == <<"thumb", "index", "middle", "ring", "pinky">>

\* the columns "<hand>_<finger>_orientation_angle", set on the rows of
\* (frame, hand) when the base landmark 0 and the finger's tip are present
_calculate_finger_orientation_angles(t) ==
    [i \in DOMAIN t |->
        LET r == t[i]
            base_landmark == Points(t, r.frame, r.type, 0)
            tip_landmark(finger) == Points(t, r.frame, r.type, FingerTips[finger])
            fingers == IF r.type \in Range(Hands) /\ base_landmark # <<>>
                           THEN {fg \in Range(Fingers) : tip_landmark(fg) # <<>>}
                       ELSE {}
            name(fg) == r.type \o "_" \o fg \o "_orientation_angle"
            names == {name(fg) : fg \in fingers}
        IN  [r EXCEPT !.features =
                [nm \in (DOMAIN r.features) \cup names |->
                    IF nm \in names
                        THEN LET fg == CHOOSE g \in fingers : name(g) = nm
                             IN  _calculate_orientation_angle(base_landmark[1], tip_landmark(fg)[1])
                    ELSE r.features[nm]]]]

-----------------------------------------------------------------------------
(* ExampleFormatter: _format_example.                                      *)

\* the keys of groupby("type"), sorted
TypeOrder == <<"face", "left_hand", "pose", "right_hand">>

RECURSIVE ByType(_, _)
ByType(rows, k) ==
    IF k > Len(TypeOrder) THEN <<>>
    ELSE SelectSeq(rows, LAMBDA r : r.type = TypeOrder[k]) \o ByType(rows, k + 1)

\* the feature columns read for one hand, each taken from the first row of
\* that hand in the frame when it is not null
HandFeatures(frame_data, hand) ==
    LET rows == SelectSeq(frame_data, LAMBDA r : r.type = hand)
    IN  IF rows = <<>> THEN <<>> ELSE rows[1].features

\* a plausible slip: the empty "hand_features" dictionary is never popped
frame_info_keeps_empty(t, frame_number) ==
    LET frame_data == SelectSeq(t, LAMBDA r : r.frame = frame_number)
        grouped == ByType(frame_data, 1)
        right == HandFeatures(frame_data, Hands[1])
        left == HandFeatures(frame_data, Hands[2])
    IN  [frame |-> frame_number,
         landmarks |-> [i \in DOMAIN grouped |-> <<grouped[i].x, grouped[i].y>>],
         landmark_types |-> [i \in DOMAIN grouped |->
             grouped[i].type \o "-" \o ToString(grouped[i].landmark_index)],
         hand_features |-> [nm \in (DOMAIN right) \cup (DOMAIN left) |->
                               IF nm \in DOMAIN right THEN right[nm] ELSE left[nm]]]

\* the record of one frame; "hand_features" is popped when it is empty
FrameInfo(t, frame_number) ==
    LET frame_data == SelectSeq(t, LAMBDA r : r.frame = frame_number)
        grouped == ByType(frame_data, 1)
        right == HandFeatures(frame_data, Hands[1])
        left == HandFeatures(frame_data, Hands[2])
        hand_features == [nm \in (DOMAIN right) \cup (DOMAIN left) |->
                             IF nm \in DOMAIN right THEN right[nm] ELSE left[nm]]
        frame_info == [frame |-> frame_number,
                       landmarks |-> [i \in DOMAIN grouped |-> <<grouped[i].x, grouped[i].y>>],
                       landmark_types |-> [i \in DOMAIN grouped |->
                           grouped[i].type \o "-" \o ToString(grouped[i].landmark_index)]]
    IN  IF DOMAIN hand_features = {} THEN frame_info
        ELSE [c \in (DOMAIN frame_info) \cup {"hand_features"} |->
                 IF c = "hand_features" THEN hand_features ELSE frame_info[c]]

\* the elements of a set of integers in increasing order
RECURSIVE Sorted(_)
Sorted(S) ==
    IF S = {} THEN <<>>
    ELSE LET m == CHOOSE u \in S : \A w \in S : u <= w
         IN  <<m>> \o Sorted(S \ {m})

\* {"frames": frames, "sign": sign}; never None
_format_example(t, sign) ==
    LET frame_numbers == Sorted(FramesOf(t))
    IN  [frames |-> [k \in DOMAIN frame_numbers |-> FrameInfo(t, frame_numbers[k])],
         sign |-> sign]

-----------------------------------------------------------------------------
(* SpecFeatures: the three feature stages and _format_example, in the      *)
(* order of process(), on every small resampled table.                     *)

MaxFeatureFrames == 2

\* the landmarks a frame may hold, in (landmark_index) order: a pose
\* landmark and the four landmarks of one hand that _calculate_hand_features
\* reads
FeatureLandmarks(hand) ==
    << <<"pose", 0>>, <<hand, 0>>, <<hand, 4>>, <<hand, 8>>, <<hand, 20>> >>

\* the observation of landmark j in frame k as the resampler returns it
FeatureRow(hand, k, j) ==
    [frame |-> k, landmark_index |-> FeatureLandmarks(hand)[j][2],
     x |-> R(3 * k + j * j), y |-> R(5 * j - k),
     type |-> FeatureLandmarks(hand)[j][1]]

RECURSIVE FeatureFrameRows(_, _, _, _)
FeatureFrameRows(hand, k, present, j) ==
    IF j > Len(FeatureLandmarks(hand)) THEN <<>>
    ELSE (IF j \in present THEN <<FeatureRow(hand, k, j)>> ELSE <<>>)
            \o FeatureFrameRows(hand, k, present, j + 1)

\* shape[k] is the set of landmarks observed in frame k - 1
RECURSIVE FeatureTable(_, _, _)
FeatureTable(hand, shape, k) ==
    IF k > Len(shape) THEN <<>>
    ELSE FeatureFrameRows(hand, k - 1, shape[k], 1) \o FeatureTable(hand, shape, k + 1)

InitFeatures ==
    /\ stage = "input"
    /\ \E n \in 1..MaxFeatureFrames : \E hand \in Range(Hands) :
          \E shape \in [1..n -> (SUBSET (1..5)) \ {{}}] :
              df = FeatureTable(hand, shape, 1)
    /\ result = <<>>
    /\ target_frames = 0
    /\ SmoothIdle
    /\ ProcessIdle

\* line 614
CalculateHandFeatures ==
    /\ stage = "input"
    /\ df' = _calculate_hand_features(df)
    /\ stage' = "hand"
    /\ UNCHANGED <<result, target_frames, smoothVars, processVars>>

\* line 615
CalculateFingerJointAngles ==
    /\ stage = "hand"
    /\ df' = _calculate_finger_joint_angles(df)
    /\ stage' = "joint"
    /\ UNCHANGED <<result, target_frames, smoothVars, processVars>>

\* line 616
CalculateFingerOrientationAngles ==
    /\ stage = "joint"
    /\ df' = _calculate_finger_orientation_angles(df)
    /\ stage' = "orientation"
    /\ UNCHANGED <<result, target_frames, smoothVars, processVars>>

\* line 618
FormatExample ==
    /\ stage = "orientation"
    /\ result' = _format_example(df, "alligator")
    /\ stage' = "output"
    /\ UNCHANGED <<df, target_frames, smoothVars, processVars>>

NextFeatures ==
    \/ CalculateHandFeatures
    \/ CalculateFingerJointAngles
    \/ CalculateFingerOrientationAngles
    \/ FormatExample

SpecFeatures == InitFeatures /\ [][NextFeatures]_vars

\* the feature columns that are not NaN on the rows of hand in frame f
DefinedFeatures(t, f, hand) ==
    UNION {DOMAIN t[i].features : i \in {j \in DOMAIN t : t[j].frame = f /\ t[j].type = hand}}

HasHandRows(t, f) == \E i \in DOMAIN t : t[i].frame = f /\ t[i].type \in Range(Hands)

\* C11: in every FrameRecord of the formatted example the hand_features key
\* is present if and only if at least one hand-derived feature is defined for
\* that frame (and then it holds exactly the defined features); a frame with
\* pose landmarks only has no hand_features key.
C11_HandFeaturesKeyIffDefined ==
    stage = "output" =>
        /\ {result.frames[k].frame : k \in DOMAIN result.frames} = FramesOf(df)
        /\ \A k \in DOMAIN result.frames :
              LET frame_info == result.frames[k]
                  defined == UNION {DefinedFeatures(df, frame_info.frame, hand) :
                                        hand \in Range(Hands)}
              IN  /\ ("hand_features" \in DOMAIN frame_info) <=> (defined # {})
                  /\ "hand_features" \in DOMAIN frame_info =>
                        DOMAIN frame_info.hand_features = defined
                  /\ ~HasHandRows(df, frame_info.frame) =>
                        "hand_features" \notin DOMAIN frame_info

\* an example of two frames: one with a complete hand, whose record has the
\* key, and one with the pose landmark only, whose record has not
C11_Witness ==
    /\ stage = "output"
    /\ \E k \in DOMAIN result.frames :
          /\ "hand_features" \in DOMAIN result.frames[k]
          /\ HasHandRows(df, result.frames[k].frame)
    /\ \E k \in DOMAIN result.frames :
          /\ "hand_features" \notin DOMAIN result.frames[k]
          /\ ~HasHandRows(df, result.frames[k].frame)
          /\ Len(result.frames[k].landmarks) = 1

\* C14: for every frame and each hand group, thumb_index_distance is defined
\* if and only if landmarks 4 and 8 of that hand are both present in the
\* frame, whether or not the wrist (0) and the pinky tip (20) are.
C14_ThumbIndexNeedsOnlyTips ==
    stage = "hand" =>
        \A f \in FramesOf(df) : \A hand \in Range(Hands) :
            (hand \o "_thumb_index_distance") \in DefinedFeatures(df, f, hand)
                <=> (Points(df, f, hand, 4) # <<>> /\ Points(df, f, hand, 8) # <<>>)

-----------------------------------------------------------------------------
(* process(): the loop over signs and, per sign, over its recordings.      *)

\* window_length=5, polyorder=3 of the call of _smooth_landmarks
SmoothWindowLength == 5
SmoothPolyorder == 3

\* the recordings on disk.  pd.read_parquet(path) returns the raw table.
Paths == {"good.parquet", "short.parquet", "empty.parquet"}

read_parquet(path) ==
    CASE path = "good.parquet" ->
            \* two frames of a right hand; one observation is missing
            << RawRow(20, "right_hand", 0, R(0), R(0)),
               RawRow(20, "right_hand", 4, R(4), R(2)),
               RawRow(20, "right_hand", 8, NaN, NaN),
               RawRow(20, "right_hand", 20, R(2), R(6)),
               RawRow(20, "face", 0, R(9), R(9)),
               RawRow(21, "right_hand", 0, R(1), R(0)),
               RawRow(21, "right_hand", 4, R(5), R(3)),
               RawRow(21, "right_hand", 8, R(6), R(8)),
               RawRow(21, "right_hand", 20, R(3), R(7)) >>
      [] path = "short.parquet" ->
            \* a pose group of two samples, fewer than the smoothing window
            << RawRow(3, "pose", 0, R(1), R(1)),
               RawRow(3, "pose", 1, R(2), R(3)) >>
      [] path = "empty.parquet" ->
            \* nothing was detected in any frame
            << RawRow(0, "pose", 0, NaN, NaN),
               RawRow(0, "right_hand", 0, NaN, NaN),
               RawRow(1, "pose", 0, NaN, NaN) >>

\* lines 594-602: the cleaning every recording goes through
Cleaned(path) ==
    _handle_nan_values(SortRows(_extract_relevant_landmarks(
        _remove_empty_frames(read_parquet(path)))))

\* lines 610-617, for a recording whose smoothing returned
Formatted(t, sign, target) ==
    _format_example(
        _calculate_finger_orientation_angles(_calculate_finger_joint_angles(
            _calculate_hand_features(_interpolate_frames(t, target)))),
        sign)

\* a plausible slip: the label is looked up without the membership test, and
\* a missing key raises
process_recording_keyerror(path, sign, labels, target) ==
    LET smoothed == _smooth_landmarks(_normalize_coordinates(_drop_z_coordinate(Cleaned(path))),
                                      SmoothWindowLength, SmoothPolyorder)
    IN  IF sign \notin labels THEN [kind |-> "raise", what |-> "KeyError"]
        ELSE IF smoothed.raised # "" THEN [kind |-> "raise", what |-> smoothed.raised]
        ELSE [kind |-> "example", example |-> Formatted(smoothed.df, sign, target)]

\* the body of the loop over parquet_files (lines 594-624) for one
\* recording: "continue" on a label miss, "raise" when a stage raises (no
\* handler encloses the body), else the example that is appended
process_recording(path, sign, labels, target) ==
    LET smoothed == _smooth_landmarks(_normalize_coordinates(_drop_z_coordinate(Cleaned(path))),
                                      SmoothWindowLength, SmoothPolyorder)
    IN  IF sign \notin labels THEN [kind |-> "continue"]
        ELSE IF smoothed.raised # "" THEN [kind |-> "raise", what |-> smoothed.raised]
        ELSE [kind |-> "example", example |-> Formatted(smoothed.df, sign, target)]

\* train_df[train_df["sign"] == sign]["path"].tolist()[: self.max_files_per_sign]
_filter_files_by_sign(sign) ==
    SubSeq(train_df[sign], 1,
           IF Len(train_df[sign]) < max_files_per_sign THEN Len(train_df[sign])
           ELSE max_files_per_sign)

MaxFiles == 2

Signs == <<"alligator", "bee">>

ProcessTargets == {1, 3}

\* sign_to_prediction_index_map.json: complete, or lacking one sign
LabelMaps == {Range(Signs)} \cup {Range(Signs) \ {s} : s \in Range(Signs)}

Init ==
    /\ StageIdle
    /\ target_frames \in ProcessTargets
    /\ SmoothIdle
    /\ signs_to_process = Signs
    /\ label_map \in LabelMaps
    /\ train_df \in [Range(Signs) -> SeqsUpTo(Paths, MaxFiles)]
    /\ max_files_per_sign \in {MaxFiles - 1, MaxFiles}
    /\ pc = "sign"
    /\ sign_i = 1
    /\ file_i = 0
    /\ all_signs_data = <<>>
    /\ written = <<>>

configVars == <<stageVars, target_frames, smoothVars, signs_to_process, label_map, train_df,
                max_files_per_sign>>

CurrentSign == signs_to_process[sign_i]

\* all_signs_data[sign] = value
SetSign(data, sign, value) ==
    [s \in (DOMAIN data) \cup {sign} |-> IF s = sign THEN value ELSE data[s]]

\* lines 588-591: the next sign starts with an empty list of examples
BeginSign ==
    /\ pc = "sign"
    /\ sign_i <= Len(signs_to_process)
    /\ all_signs_data' = SetSign(all_signs_data, CurrentSign,
                                 [sign |-> CurrentSign, examples |-> <<>>])
    /\ file_i' = 1
    /\ pc' = "file"
    /\ UNCHANGED <<configVars, sign_i, written>>

\* lines 593-624: one recording of the current sign
ProcessRecording ==
    /\ pc = "file"
    /\ file_i <= Len(_filter_files_by_sign(CurrentSign))
    /\ LET outcome == process_recording(_filter_files_by_sign(CurrentSign)[file_i],
                                        CurrentSign, label_map, target_frames)
       IN  \/ /\ outcome.kind = "continue"
              /\ file_i' = file_i + 1
              /\ UNCHANGED <<pc, all_signs_data>>
           \/ /\ outcome.kind = "raise"
              /\ pc' = "raised"
              /\ UNCHANGED <<file_i, all_signs_data>>
           \/ /\ outcome.kind = "example"
              /\ all_signs_data' =
                    [all_signs_data EXCEPT ![CurrentSign].examples = Append(@, outcome.example)]
              /\ file_i' = file_i + 1
              /\ UNCHANGED pc
    /\ UNCHANGED <<configVars, sign_i, written>>

\* lines 626-634: the sign's document is written once its recordings are done
WriteSign ==
    /\ pc = "file"
    /\ file_i > Len(_filter_files_by_sign(CurrentSign))
    /\ written' = Append(written, all_signs_data[CurrentSign])
    /\ sign_i' = sign_i + 1
    /\ pc' = "sign"
    /\ UNCHANGED <<configVars, file_i, all_signs_data>>

\* the loop over signs is exhausted: process() returns
Finish ==
    /\ pc = "sign"
    /\ sign_i > Len(signs_to_process)
    /\ pc' = "done"
    /\ UNCHANGED <<configVars, sign_i, file_i, all_signs_data, written>>

Next == BeginSign \/ ProcessRecording \/ WriteSign \/ Finish

Spec == Init /\ [][Next]_vars

CurrentFiles == _filter_files_by_sign(CurrentSign)

\* the examples of the recordings of a sign that run through the whole
\* pipeline, in recording order
RECURSIVE ExamplesOf(_, _)
ExamplesOf(paths, sign) ==
    IF paths = <<>> THEN <<>>
    ELSE LET outcome == process_recording(Head(paths), sign, label_map, target_frames)
         IN  (IF outcome.kind = "example" THEN <<outcome.example>> ELSE <<>>)
                \o ExamplesOf(Tail(paths), sign)

\* C1: a failure raised while processing one recording (the smoothing
\* stage's error for a group with fewer samples than window_length) does not
\* abort the run: process() never ends by a raised error.
C1_FailureDoesNotAbort == pc # "raised"

\* C2: when process() has ended, the output sink has received, for every
\* sign of signs_to_process, exactly one SignRecord, whose examples are the
\* Examples of the recordings of that sign that were processed successfully,
\* in recording order.
C2_OneRecordPerSign ==
    pc \in {"done", "raised"} =>
        /\ Len(written) = Len(signs_to_process)
        /\ \A i \in DOMAIN written :
              written[i] = [sign |-> signs_to_process[i],
                            examples |-> ExamplesOf(_filter_files_by_sign(signs_to_process[i]),
                                                    signs_to_process[i])]

\* C9: a recording that yields no frames after cleaning is skipped: the step
\* that handles it appends no Example and goes on to the next recording.
C9_EmptyRecordingSkipped ==
    [][(pc = "file" /\ file_i <= Len(CurrentFiles) /\ Cleaned(CurrentFiles[file_i]) = <<>>)
          => (all_signs_data' = all_signs_data /\ pc' = "file" /\ file_i' = file_i + 1)]_vars

\* C10: when a sign is absent from the label map, the step that handles one
\* of its recordings does not raise and appends no Example, and goes on to
\* the sign's next recording; after the last one the sign's document is
\* written without examples and the next sign is taken up.
C10_LabelMissSkips ==
    [][(pc = "file" /\ CurrentSign \notin label_map) =>
          IF file_i <= Len(CurrentFiles)
              THEN /\ pc' = "file"
                   /\ file_i' = file_i + 1
                   /\ all_signs_data' = all_signs_data
                   /\ written' = written
          ELSE /\ pc' = "sign"
               /\ sign_i' = sign_i + 1
               /\ written' = Append(written, [sign |-> CurrentSign, examples |-> <<>>])]_vars

\* the run is over: a sign absent from the label map had two recordings, one
\* of which would have raised in the smoothing stage, its document was
\* written without examples, and a later sign got an example
C10_Witness ==
    /\ pc = "done"
    /\ \E i \in DOMAIN written : \E j \in DOMAIN written :
          /\ i < j
          /\ written[i].sign \notin label_map
          /\ Len(_filter_files_by_sign(written[i].sign)) = 2
          /\ "short.parquet" \in Range(_filter_files_by_sign(written[i].sign))
          /\ written[i].examples = <<>>
          /\ written[j].examples # <<>>

====
